---- MODULE Spec2Model ----
(***************************************************************************)
(* BaseSystemCollection (elastica/wrappers/base_system.py): an ordered,    *)
(* type-gated, mutable registry of systems.  Every method of the class is  *)
(* one action.  Calls are synchronous and never reentrant: a call runs from *)
(* an idle collection and leaves in `last` what the caller can observe of  *)
(* it (method, arguments, exception raised or value returned, and the      *)
(* state it started from); the caller then takes the outcome (Return).     *)
(***************************************************************************)
EXTENDS Integers, Sequences, FiniteSets, TLC

\* ------------------------------------------------------------------ bounds
\* Most systems one collection holds in the model.
MaxSystems == 3
\* Longest allowed_sys_types tuple in the model.
MaxAllowedTypes == 2

\* With two collections: the most systems, and markers, either one holds.
TwoMaxSystems == 1
TwoMaxAllowedTypes == 1

\* ------------------------------------------------- classes and entities
\* The classes that occur as runtime types and as markers.
Classes == {"RodBase", "CosseratRod", "RigidBodyBase"}

\* The classes callers name as markers in allowed_sys_types.
Markers == Classes

\* The classes a class is a subclass of (itself included): its MRO.
Bases(cls) == IF cls = "CosseratRod" THEN {"CosseratRod", "RodBase"} ELSE {cls}

\* The systems callers construct and hand to a collection, by identity.
Entities == {"r0", "r1", "r2", "b0"}

\* sys.__class__
ClassOf(sys) ==
  CASE sys = "b0" -> "RigidBodyBase"
    [] sys = "r2" -> "RodBase"
    [] OTHER -> "CosseratRod"

\* issubclass(cls, classinfo) for a tuple classinfo: some member is a base.
issubclass(cls, classinfo) == \E k \in 1..Len(classinfo) : classinfo[k] \in Bases(cls)

\* Tuples of classes of length 0..n.
TypeTuples(n) == UNION {[1..k -> Markers] : k \in 0..n}

\* The integers callers pass as indices: every position, both ends past.
Indices == (0 - (MaxSystems + 1))..MaxSystems

\* The time values the driver passes to synchronize.
Times == {0, 1}

\* ------------------------------------------------------------- the state
VARIABLES
  _systems,           \* self._systems, per collection instance
  allowed_sys_types,  \* self.allowed_sys_types, per collection instance
  admitted,           \* history: per position, the gate's verdict on the
                      \* element when it was put there
  last                \* the call just completed, or Idle

vars == <<_systems, allowed_sys_types, admitted, last>>

\* ------------------------------------------------- native list semantics
\* Position of idx in a list of length n (negative counts from the end).
py_norm(n, idx) == IF idx < 0 THEN idx + n ELSE idx

\* Variant: negative indices are not supported.
py_valid_nonnegative(n, idx) == 0 <= idx /\ idx < n

\* Whether list[idx] exists in a list of length n.
py_valid(n, idx) == 0 <= py_norm(n, idx) /\ py_norm(n, idx) < n

\* list[idx], for a valid idx
list_getitem(s, idx) == s[py_norm(Len(s), idx) + 1]

\* Variant: the shift starts one position early.
list_delitem_early(s, idx) ==
  LET p == py_norm(Len(s), idx)
  IN  [k \in 1..(Len(s) - 1) |-> IF k < p THEN s[k] ELSE s[k + 1]]

\* del list[idx], for a valid idx
list_delitem(s, idx) ==
  LET p == py_norm(Len(s), idx)
  IN  [k \in 1..(Len(s) - 1) |-> IF k <= p THEN s[k] ELSE s[k + 1]]

\* Variant: the value is put in front of the element instead of replacing it.
list_setitem_inserts(s, idx, v) ==
  LET p == py_norm(Len(s), idx)
  IN  [k \in 1..(Len(s) + 1) |->
         IF k <= p THEN s[k] ELSE IF k = p + 1 THEN v ELSE s[k - 1]]

\* list[idx] = v, for a valid idx
list_setitem(s, idx, v) == [s EXCEPT ![py_norm(Len(s), idx) + 1] = v]

\* Variant: a value the list already holds is not inserted again.
list_insert_unique(s, idx, v) ==
  IF \E j \in 1..Len(s) : s[j] = v
  THEN s
  ELSE LET n == Len(s)
           w == py_norm(n, idx)
           where == IF w < 0 THEN 0 ELSE IF w > n THEN n ELSE w
       IN  [k \in 1..(n + 1) |->
              IF k <= where THEN s[k] ELSE IF k = where + 1 THEN v ELSE s[k - 1]]

\* Variant: list.append(v) in place of list.insert(idx, v).
list_insert_appends(s, idx, v) == s \o <<v>>

\* list.insert(idx, v): the position is clamped into 0..len
list_insert(s, idx, v) ==
  LET n == Len(s)
      w == py_norm(n, idx)
      where == IF w < 0 THEN 0 ELSE IF w > n THEN n ELSE w
  IN  [k \in 1..(n + 1) |->
         IF k <= where THEN s[k] ELSE IF k = where + 1 THEN v ELSE s[k - 1]]

\* Whether list.index(v) finds v.
list_contains(s, v) == \E k \in 1..Len(s) : s[k] = v

\* Variant: the match is counted from 1.
list_index_from_one(s, v) ==
  CHOOSE k \in 1..Len(s) : s[k] = v /\ \A j \in 1..(k - 1) : s[j] # v

\* Variant: the scan keeps the last match instead of stopping at the first.
list_index_last(s, v) ==
  (CHOOSE k \in 1..Len(s) : s[k] = v /\ \A j \in (k + 1)..Len(s) : s[j] # v) - 1

\* list.index(v): the first position holding v
list_index(s, v) ==
  (CHOOSE k \in 1..Len(s) : s[k] = v /\ \A j \in 1..(k - 1) : s[j] # v) - 1

\* ------------------------------------------------------ call bookkeeping
\* No call is in progress and no outcome is pending.
Idle == [op |-> "idle"]

\* What `last` holds after a call: err is "none" or the exception raised,
\* ret is <<>> (nothing returned) or <<v>>, pre_* is the state at the call.
Outcome(op, self, args, err, ret) ==
  [op |-> op, self |-> self, args |-> args, err |-> err, ret |-> ret,
   pre_systems |-> _systems, pre_allowed |-> allowed_sys_types]

\* A call that raises: nothing was assigned before the raise.
Raises(op, self, args, err) ==
  /\ last' = Outcome(op, self, args, err, <<>>)
  /\ UNCHANGED <<_systems, allowed_sys_types, admitted>>

\* A call that returns ret and assigns nothing.
Returns(op, self, args, ret) ==
  /\ last' = Outcome(op, self, args, "none", ret)
  /\ UNCHANGED <<_systems, allowed_sys_types, admitted>>

\* ---------------------------------------------------------------- methods
\* __init__ of the one collection, "A"
Init ==
  /\ _systems = [self \in {"A"} |-> <<>>]
  /\ allowed_sys_types = [self \in {"A"} |-> <<"RodBase">>]
  /\ admitted = [self \in {"A"} |-> <<>>]
  /\ last = Idle

\* Variant: the check is skipped.
_check_type_skipped(self, sys_to_be_added) == TRUE

\* Variant: issubclass with its arguments swapped.
_check_type_swapped(self, sys_to_be_added) ==
  \E k \in 1..Len(allowed_sys_types[self]) :
    ClassOf(sys_to_be_added) \in Bases(allowed_sys_types[self][k])

\* _check_type: TRUE when it returns True, FALSE when it raises TypeError
_check_type(self, sys_to_be_added) ==
  issubclass(ClassOf(sys_to_be_added), allowed_sys_types[self])

\* The body of insert; append calls it under its own name.
InsertBody(op, self, args, idx, system) ==
  IF ~_check_type(self, system)
  THEN Raises(op, self, args, "TypeError")
  ELSE /\ Len(_systems[self]) < MaxSystems
       /\ _systems' = [_systems EXCEPT ![self] = list_insert(@, idx, system)]
       /\ admitted' = [admitted EXCEPT ![self] =
            list_insert(@, idx, issubclass(ClassOf(system), allowed_sys_types[self]))]
       /\ UNCHANGED allowed_sys_types
       /\ last' = Outcome(op, self, args, "none", <<>>)

\* Variant: an index outside -len..len is refused.
insert_checks_index(self, idx, system) ==
  IF /\ _check_type(self, system)
     /\ (idx > Len(_systems[self]) \/ idx < 0 - Len(_systems[self]))
  THEN Raises("insert", self, [idx |-> idx, system |-> system], "IndexError")
  ELSE InsertBody("insert", self, [idx |-> idx, system |-> system], idx, system)

insert(self, idx, system) ==
  InsertBody("insert", self, [idx |-> idx, system |-> system], idx, system)

\* MutableSequence.append(value): self.insert(len(self), value)
append(self, value) ==
  InsertBody("append", self, [system |-> value], Len(_systems[self]), value)

\* Variant: the assignment runs before the type check.
setitem_assigns_first(self, idx, system) ==
  LET args == [idx |-> idx, system |-> system]
      ok == _check_type(self, system)
  IN  IF ~py_valid(Len(_systems[self]), idx)
      THEN Raises("__setitem__", self, args, IF ok THEN "IndexError" ELSE "TypeError")
      ELSE /\ _systems' = [_systems EXCEPT ![self] = list_setitem(@, idx, system)]
           /\ admitted' = [admitted EXCEPT ![self] = list_setitem(@, idx, ok)]
           /\ UNCHANGED allowed_sys_types
           /\ last' = Outcome("__setitem__", self, args,
                              IF ok THEN "none" ELSE "TypeError", <<>>)

\* Variant: the index is checked before the type.
setitem_index_first(self, idx, system) ==
  LET args == [idx |-> idx, system |-> system]
  IN  IF ~py_valid(Len(_systems[self]), idx)
      THEN Raises("__setitem__", self, args, "IndexError")
      ELSE IF ~_check_type(self, system)
      THEN Raises("__setitem__", self, args, "TypeError")
      ELSE /\ _systems' = [_systems EXCEPT ![self] = list_setitem(@, idx, system)]
           /\ admitted' = [admitted EXCEPT ![self] = list_setitem(@, idx, TRUE)]
           /\ UNCHANGED allowed_sys_types
           /\ last' = Outcome("__setitem__", self, args, "none", <<>>)

__setitem__(self, idx, system) ==
  LET args == [idx |-> idx, system |-> system]
  IN  IF ~_check_type(self, system)
      THEN Raises("__setitem__", self, args, "TypeError")
      ELSE IF ~py_valid(Len(_systems[self]), idx)
      THEN Raises("__setitem__", self, args, "IndexError")
      ELSE /\ _systems' = [_systems EXCEPT ![self] = list_setitem(@, idx, system)]
           /\ admitted' = [admitted EXCEPT ![self] =
                list_setitem(@, idx, issubclass(ClassOf(system), allowed_sys_types[self]))]
           /\ UNCHANGED allowed_sys_types
           /\ last' = Outcome("__setitem__", self, args, "none", <<>>)

__delitem__(self, idx) ==
  LET args == [idx |-> idx]
  IN  IF ~py_valid(Len(_systems[self]), idx)
      THEN Raises("__delitem__", self, args, "IndexError")
      ELSE /\ _systems' = [_systems EXCEPT ![self] = list_delitem(@, idx)]
           /\ admitted' = [admitted EXCEPT ![self] = list_delitem(@, idx)]
           /\ UNCHANGED allowed_sys_types
           /\ last' = Outcome("__delitem__", self, args, "none", <<>>)

__getitem__(self, idx) ==
  LET args == [idx |-> idx]
  IN  IF ~py_valid(Len(_systems[self]), idx)
      THEN Raises("__getitem__", self, args, "IndexError")
      ELSE Returns("__getitem__", self, args, <<list_getitem(_systems[self], idx)>>)

__len__(self) == Returns("__len__", self, <<>>, <<Len(_systems[self])>>)

\* Variant: = in place of +=.
extend_assigns(self, additional_types) ==
  /\ Len(allowed_sys_types[self]) + Len(additional_types) <= MaxAllowedTypes
  /\ allowed_sys_types' = [allowed_sys_types EXCEPT ![self] = additional_types]
  /\ UNCHANGED <<_systems, admitted>>
  /\ last' = Outcome("extend_allowed_types", self,
                     [additional_types |-> additional_types], "none", <<>>)

\* allowed_sys_types += additional_types: tuple concatenation
extend_allowed_types(self, additional_types) ==
  /\ Len(allowed_sys_types[self]) + Len(additional_types) <= MaxAllowedTypes
  /\ allowed_sys_types' =
       [allowed_sys_types EXCEPT ![self] = @ \o additional_types]
  /\ UNCHANGED <<_systems, admitted>>
  /\ last' = Outcome("extend_allowed_types", self,
                     [additional_types |-> additional_types], "none", <<>>)

\* Variant: the override evicts the members the new markers exclude.
override_revalidates(self, allowed_types) ==
  LET kept == SelectSeq(_systems[self],
                        LAMBDA m : issubclass(ClassOf(m), allowed_types))
  IN  /\ allowed_sys_types' = [allowed_sys_types EXCEPT ![self] = allowed_types]
      /\ _systems' = [_systems EXCEPT ![self] = kept]
      /\ admitted' = [admitted EXCEPT ![self] = [k \in 1..Len(kept) |-> TRUE]]
      /\ last' = Outcome("override_allowed_types", self,
                         [allowed_types |-> allowed_types], "none", <<>>)

\* Variant: allowed_sys_types is one attribute shared by every instance.
override_shared(self, allowed_types) ==
  /\ allowed_sys_types' = [c \in DOMAIN allowed_sys_types |-> allowed_types]
  /\ UNCHANGED <<_systems, admitted>>
  /\ last' = Outcome("override_allowed_types", self,
                     [allowed_types |-> allowed_types], "none", <<>>)

override_allowed_types(self, allowed_types) ==
  /\ allowed_sys_types' = [allowed_sys_types EXCEPT ![self] = allowed_types]
  /\ UNCHANGED <<_systems, admitted>>
  /\ last' = Outcome("override_allowed_types", self,
                     [allowed_types |-> allowed_types], "none", <<>>)

\* What _get_sys_idx_if_valid is given: an integer or a system.
IntArg(k) == [int |-> k]
SysArg(sys) == [system |-> sys]
Arguments == {IntArg(k) : k \in Indices} \cup {SysArg(sys) : sys \in Entities}

\* isinstance(sys_to_be_added, (int, npint))
is_int(x) == "int" \in DOMAIN x

\* Variant: the upper comparison is <=.
idx_in_range_inclusive(n_systems, k) == (0 - n_systems) <= k /\ k <= n_systems

\* The asserted condition: -n_systems <= sys_to_be_added < n_systems
idx_in_range(n_systems, k) == (0 - n_systems) <= k /\ k < n_systems

\* Variant: the lookup runs before the type check.
_get_sys_idx_lookup_first(self, sys_to_be_added) ==
  LET n_systems == Len(_systems[self])
  IN  IF is_int(sys_to_be_added)
      THEN IF ~idx_in_range(n_systems, sys_to_be_added.int)
           THEN Raises("_get_sys_idx_if_valid", self, sys_to_be_added, "AssertionError")
           ELSE Returns("_get_sys_idx_if_valid", self, sys_to_be_added,
                        <<sys_to_be_added.int>>)
      ELSE IF ~list_contains(_systems[self], sys_to_be_added.system)
           THEN Raises("_get_sys_idx_if_valid", self, sys_to_be_added, "ValueError")
           ELSE IF ~_check_type(self, sys_to_be_added.system)
           THEN Raises("_get_sys_idx_if_valid", self, sys_to_be_added, "TypeError")
           ELSE Returns("_get_sys_idx_if_valid", self, sys_to_be_added,
                        <<list_index(_systems[self], sys_to_be_added.system)>>)

\* Variant: a conforming system that is not found is registered at the end.
_get_sys_idx_registers(self, sys_to_be_added) ==
  LET n_systems == Len(_systems[self])
  IN  IF is_int(sys_to_be_added)
      THEN IF ~idx_in_range(n_systems, sys_to_be_added.int)
           THEN Raises("_get_sys_idx_if_valid", self, sys_to_be_added, "AssertionError")
           ELSE Returns("_get_sys_idx_if_valid", self, sys_to_be_added,
                        <<sys_to_be_added.int>>)
      ELSE IF ~_check_type(self, sys_to_be_added.system)
           THEN Raises("_get_sys_idx_if_valid", self, sys_to_be_added, "TypeError")
           ELSE IF ~list_contains(_systems[self], sys_to_be_added.system)
           THEN /\ _systems' = [_systems EXCEPT ![self] =
                                  Append(@, sys_to_be_added.system)]
                /\ admitted' = [admitted EXCEPT ![self] = Append(@, TRUE)]
                /\ UNCHANGED allowed_sys_types
                /\ last' = Outcome("_get_sys_idx_if_valid", self, sys_to_be_added,
                                   "none", <<n_systems>>)
           ELSE Returns("_get_sys_idx_if_valid", self, sys_to_be_added,
                        <<list_index(_systems[self], sys_to_be_added.system)>>)

_get_sys_idx_if_valid(self, sys_to_be_added) ==
  LET n_systems == Len(_systems[self])
  IN  IF is_int(sys_to_be_added)
      THEN IF ~idx_in_range(n_systems, sys_to_be_added.int)
           THEN Raises("_get_sys_idx_if_valid", self, sys_to_be_added, "AssertionError")
           ELSE Returns("_get_sys_idx_if_valid", self, sys_to_be_added,
                        <<sys_to_be_added.int>>)
      ELSE IF ~_check_type(self, sys_to_be_added.system)
           THEN Raises("_get_sys_idx_if_valid", self, sys_to_be_added, "TypeError")
           ELSE IF ~list_contains(_systems[self], sys_to_be_added.system)
           THEN Raises("_get_sys_idx_if_valid", self, sys_to_be_added, "ValueError")
           ELSE Returns("_get_sys_idx_if_valid", self, sys_to_be_added,
                        <<list_index(_systems[self], sys_to_be_added.system)>>)

\* Variant: the call empties the collection.
synchronize_clears(self, time) ==
  /\ _systems' = [_systems EXCEPT ![self] = <<>>]
  /\ admitted' = [admitted EXCEPT ![self] = <<>>]
  /\ UNCHANGED allowed_sys_types
  /\ last' = Outcome("synchronize", self, [time |-> time], "none", <<>>)

synchronize(self, time) == Returns("synchronize", self, [time |-> time], <<>>)

\* ------------------------------------------------ the callers' every move
Collections == DOMAIN _systems

\* A call starts only when the previous one has completed and been taken.
Ready == last = Idle

CallAppend ==
  Ready /\ \E self \in Collections, sys \in Entities : append(self, sys)
CallInsert ==
  Ready /\ \E self \in Collections, idx \in Indices, sys \in Entities :
             insert(self, idx, sys)
CallSetItem ==
  Ready /\ \E self \in Collections, idx \in Indices, sys \in Entities :
             __setitem__(self, idx, sys)
CallDelItem ==
  Ready /\ \E self \in Collections, idx \in Indices : __delitem__(self, idx)
CallGetItem ==
  Ready /\ \E self \in Collections, idx \in Indices : __getitem__(self, idx)
CallLen ==
  Ready /\ \E self \in Collections : __len__(self)
CallExtendAllowedTypes ==
  Ready /\ \E self \in Collections, t \in TypeTuples(MaxAllowedTypes) :
             extend_allowed_types(self, t)
CallOverrideAllowedTypes ==
  Ready /\ \E self \in Collections, t \in TypeTuples(MaxAllowedTypes) :
             override_allowed_types(self, t)
CallGetSysIdxIfValid ==
  Ready /\ \E self \in Collections, x \in Arguments : _get_sys_idx_if_valid(self, x)
CallSynchronize ==
  Ready /\ \E self \in Collections, time \in Times : synchronize(self, time)

\* The caller takes the outcome of the completed call.
Return ==
  /\ last # Idle
  /\ last' = Idle
  /\ UNCHANGED <<_systems, allowed_sys_types, admitted>>

Next ==
  \/ CallAppend
  \/ CallInsert
  \/ CallSetItem
  \/ CallDelItem
  \/ CallGetItem
  \/ CallLen
  \/ CallExtendAllowedTypes
  \/ CallOverrideAllowedTypes
  \/ CallGetSysIdxIfValid
  \/ CallSynchronize
  \/ Return

Spec == Init /\ [][Next]_vars

\* --------------------------------------------------------- two collections
\* __init__ of two collections, "A" and "B"
InitTwo ==
  /\ _systems = [self \in {"A", "B"} |-> <<>>]
  /\ allowed_sys_types = [self \in {"A", "B"} |-> <<"RodBase">>]
  /\ admitted = [self \in {"A", "B"} |-> <<>>]
  /\ last = Idle

\* What the callers of the two collections pass: a rod and a rigid body,
\* tuples of their base classes, every position and one past both ends.
TwoEntities == {"r0", "b0"}
TwoTypeTuples ==
  UNION {[1..k -> {"RodBase", "RigidBodyBase"}] : k \in 0..TwoMaxAllowedTypes}
TwoIndices == (0 - (TwoMaxSystems + 1))..TwoMaxSystems

\* Neither collection is grown past the bounds.
TwoBounded ==
  \A self \in Collections :
    /\ Len(_systems[self]) <= TwoMaxSystems
    /\ Len(allowed_sys_types[self]) <= TwoMaxAllowedTypes

TwoAppend ==
  Ready /\ \E self \in Collections, sys \in TwoEntities :
             append(self, sys) /\ TwoBounded'
TwoInsert ==
  Ready /\ \E self \in Collections, idx \in TwoIndices, sys \in TwoEntities :
             insert(self, idx, sys) /\ TwoBounded'
TwoSetItem ==
  Ready /\ \E self \in Collections, idx \in TwoIndices, sys \in TwoEntities :
             __setitem__(self, idx, sys)
TwoDelItem ==
  Ready /\ \E self \in Collections, idx \in TwoIndices : __delitem__(self, idx)
TwoGetItem ==
  Ready /\ \E self \in Collections, idx \in TwoIndices : __getitem__(self, idx)
TwoLen ==
  Ready /\ \E self \in Collections : __len__(self)
TwoExtendAllowedTypes ==
  Ready /\ \E self \in Collections, t \in TwoTypeTuples :
             extend_allowed_types(self, t) /\ TwoBounded'
TwoOverrideAllowedTypes ==
  Ready /\ \E self \in Collections, t \in TwoTypeTuples :
             override_allowed_types(self, t) /\ TwoBounded'
TwoGetSysIdxIfValid ==
  Ready /\ \E self \in Collections,
              x \in {IntArg(k) : k \in TwoIndices} \cup {SysArg(sys) : sys \in TwoEntities} :
             _get_sys_idx_if_valid(self, x)
TwoSynchronize ==
  Ready /\ \E self \in Collections, time \in Times : synchronize(self, time)

NextTwo ==
  \/ TwoAppend
  \/ TwoInsert
  \/ TwoSetItem
  \/ TwoDelItem
  \/ TwoGetItem
  \/ TwoLen
  \/ TwoExtendAllowedTypes
  \/ TwoOverrideAllowedTypes
  \/ TwoGetSysIdxIfValid
  \/ TwoSynchronize
  \/ Return

SpecTwo == InitTwo /\ [][NextTwo]_vars

\* ------------------------------------------------- vocabulary of the claims
\* The error kinds of the specification, as the exceptions that signal them.
TypeMismatch == {"TypeError"}
IndexOutOfRange == {"IndexError", "AssertionError"}
NotRegistered == {"ValueError"}

\* get(k) of a sequence, for a position k in 0..length-1
At(s, k) == s[k + 1]

\* The members of a tuple.
Range(t) == {t[k] : k \in 1..Len(t)}

\* Whether a system's type satisfies some marker of a marker tuple.
Conforms(sys, markers) == \E m \in Range(markers) : m \in Bases(ClassOf(sys))

\* An index that addresses a position of a sequence of length n.
InRange(n, i) == (0 - n) <= i /\ i < n

\* The position an in-range index addresses: negative ones count from the end.
Position(n, i) == IF i < 0 THEN n + i ELSE i

\* The completed call was of method op.
Did(op) == last.op = op

\* The entities, and the markers, of the called collection before and after.
Before == last.pre_systems[last.self]
After == _systems[last.self]
MarkersBefore == last.pre_allowed[last.self]
MarkersAfter == allowed_sys_types[last.self]

\* The call succeeded.
Succeeded == last.err = "none"

\* The call failed with an error of the kind.
Failed(kind) == last.err \in kind

\* The call left every collection's entities and markers as they were.
NothingChanged ==
  /\ _systems = last.pre_systems
  /\ allowed_sys_types = last.pre_allowed

\* --------------------------------------------------------------------- C1
\* C1: a system whose type satisfies no marker of the current
\* allowed_sys_types is refused by append, insert (any index) and set (any
\* index) with TypeMismatch, and the length stays what it was.
C1_TypeGateEnforced ==
  ((Did("append") \/ Did("insert") \/ Did("__setitem__"))
     /\ ~Conforms(last.args.system, MarkersBefore))
  => (Failed(TypeMismatch) /\ Len(After) = Len(Before))

\* A set at an index past the end, of a system the gate refuses, on a
\* collection that holds systems.
C1_Witness ==
  /\ Did("__setitem__")
  /\ Failed(TypeMismatch)
  /\ Len(Before) = 2
  /\ last.args.idx = 3

\* --------------------------------------------------------------------- C2
\* C2 (I1): every element now in _systems satisfied the allowed_sys_types in
\* force when it was inserted or set, whatever the operations since.
C2_AdmittedWhenInserted ==
  \A self \in Collections :
    /\ Len(admitted[self]) = Len(_systems[self])
    /\ \A i \in 1..Len(_systems[self]) : admitted[self][i]

\* A full collection with a member that no longer satisfies the markers.
C2_Witness ==
  \E self \in Collections :
    /\ Len(_systems[self]) = 3
    /\ \E i \in 1..3 : ~Conforms(_systems[self][i], allowed_sys_types[self])

\* --------------------------------------------------------------------- C3
\* C3 (P4): override_allowed_types(new_set) never fails, makes the marker
\* tuple new_set and leaves the entities as they were, members of types not
\* in new_set included; and while the markers exclude the type of a member
\* (a state only an override produces), an append of a system of that type
\* fails with TypeMismatch and changes nothing.
C3_OverrideNotRetroactive ==
  /\ Did("override_allowed_types") =>
       /\ Succeeded
       /\ MarkersAfter = last.args.allowed_types
       /\ _systems = last.pre_systems
  /\ (/\ Did("append")
      /\ \E k \in 1..Len(Before) : ClassOf(Before[k]) = ClassOf(last.args.system)
      /\ ~Conforms(last.args.system, MarkersBefore))
     => (Failed(TypeMismatch) /\ NothingChanged)

\* The markers were overridden to rigid bodies only while two rods are
\* members.
C3_Witness ==
  /\ Did("override_allowed_types")
  /\ After = <<"r0", "r1">>
  /\ MarkersAfter = <<"RigidBodyBase">>

\* --------------------------------------------------------------------- C4
\* C4: extend_allowed_types(additional) makes the markers the union of the
\* former markers and additional; every class admitted before is admitted
\* after, every class satisfying a marker of additional is admitted after,
\* and the entities are unchanged.
C4_ExtendIsUnion ==
  Did("extend_allowed_types") =>
    /\ Succeeded
    /\ Range(MarkersAfter) = Range(MarkersBefore) \cup Range(last.args.additional_types)
    /\ \A cls \in Classes :
         /\ issubclass(cls, MarkersBefore) => issubclass(cls, MarkersAfter)
         /\ issubclass(cls, last.args.additional_types) => issubclass(cls, MarkersAfter)
    /\ _systems = last.pre_systems

\* The rigid-body marker was added to the rod marker, with members present.
C4_Witness ==
  /\ Did("extend_allowed_types")
  /\ MarkersBefore = <<"RodBase">>
  /\ last.args.additional_types = <<"RigidBodyBase">>
  /\ Len(After) >= 1

\* --------------------------------------------------------------------- C5
\* The reference list: e put before position i of s.
RefInsert(s, i, e) == SubSeq(s, 1, i) \o <<e>> \o SubSeq(s, i + 1, Len(s))

\* C5 (P1): insert(i, e) of a conforming e with 0 <= i <= n succeeds, makes
\* the length n+1, puts e at position i, leaves positions 0..i-1 as they
\* were and moves every former element at k >= i to k+1 (i = n appends, as
\* append does); each such insert is the same insert on a reference list.
C5_InsertPreservesOrder ==
  /\ (/\ Did("insert")
      /\ Conforms(last.args.system, MarkersBefore)
      /\ 0 <= last.args.idx
      /\ last.args.idx <= Len(Before))
     => LET n == Len(Before)
            i == last.args.idx
        IN  /\ Succeeded
            /\ Len(After) = n + 1
            /\ At(After, i) = last.args.system
            /\ \A k \in 0..(i - 1) : At(After, k) = At(Before, k)
            /\ \A k \in i..(n - 1) : At(After, k + 1) = At(Before, k)
            /\ i = n => After = Before \o <<last.args.system>>
            /\ After = RefInsert(Before, i, last.args.system)
            /\ MarkersAfter = MarkersBefore
  /\ (Did("append") /\ Conforms(last.args.system, MarkersBefore))
     => (Succeeded /\ After = Before \o <<last.args.system>>)

\* An insert strictly inside a collection of two distinct systems.
C5_Witness ==
  /\ Did("insert")
  /\ Succeeded
  /\ last.args.idx = 1
  /\ Len(Before) = 2
  /\ Before[1] # Before[2]
  /\ last.args.system \notin {Before[1], Before[2]}

\* --------------------------------------------------------------------- C6
\* C6: delete(i) with i in range removes exactly the entity at position i:
\* the length becomes n-1, the positions before it are unchanged, every
\* former element at k > i moves to k-1, and allowed_sys_types is unchanged;
\* with i out of range it fails with IndexOutOfRange.
C6_DeleteRemovesOne ==
  Did("__delitem__") =>
    LET n == Len(Before)
        i == last.args.idx
        p == Position(n, i)
    IN  IF InRange(n, i)
        THEN /\ Succeeded
             /\ Len(After) = n - 1
             /\ \A k \in 0..(p - 1) : At(After, k) = At(Before, k)
             /\ \A k \in (p + 1)..(n - 1) : At(After, k - 1) = At(Before, k)
             /\ allowed_sys_types = last.pre_allowed
        ELSE Failed(IndexOutOfRange)

\* The middle one of three distinct systems was deleted.
C6_Witness ==
  /\ Did("__delitem__")
  /\ Succeeded
  /\ last.args.idx = 1
  /\ Len(Before) = 3
  /\ Cardinality(Range(Before)) = 3

\* --------------------------------------------------------------------- C7
\* C7: set(i, e) of a conforming e at an in-range i replaces exactly the
\* entity at position i (get(i) is e, the length and every other position
\* are unchanged); a non-conforming e fails with TypeMismatch; a conforming
\* e at an out-of-range i fails with IndexOutOfRange.
C7_SetReplacesOne ==
  Did("__setitem__") =>
    LET n == Len(Before)
        i == last.args.idx
        p == Position(n, i)
    IN  IF ~Conforms(last.args.system, MarkersBefore)
        THEN Failed(TypeMismatch)
        ELSE IF ~InRange(n, i)
        THEN Failed(IndexOutOfRange)
        ELSE /\ Succeeded
             /\ Len(After) = n
             /\ At(After, p) = last.args.system
             /\ \A k \in (0..(n - 1)) \ {p} : At(After, k) = At(Before, k)

\* The middle one of three systems was replaced by a system new to the
\* collection.
C7_Witness ==
  /\ Did("__setitem__")
  /\ Succeeded
  /\ last.args.idx = 1
  /\ Len(Before) = 3
  /\ last.args.system \notin Range(Before)

\* --------------------------------------------------------------------- C8
\* C8 (P5): with length n, get(n), get(-n-1) and delete(n) fail with
\* IndexOutOfRange, as does get(i) for every |i| > n; for n >= 1, get(-1)
\* returns the last element and get(n-1) succeeds; a negative index counts
\* from the end.
C8_Bounds ==
  /\ Did("__getitem__") =>
       LET n == Len(Before)
           i == last.args.idx
       IN  /\ (i = n \/ i = 0 - n - 1 \/ i > n \/ 0 - i > n) => Failed(IndexOutOfRange)
           /\ (n >= 1 /\ i = 0 - 1) => (Succeeded /\ last.ret = <<At(Before, n - 1)>>)
           /\ (n >= 1 /\ i = n - 1) => (Succeeded /\ last.ret = <<At(Before, n - 1)>>)
           /\ ((0 - n) <= i /\ i < 0) => (Succeeded /\ last.ret = <<At(Before, n + i)>>)
  /\ (Did("__delitem__") /\ last.args.idx = Len(Before)) => Failed(IndexOutOfRange)

\* get(-1) returned the last of three systems.
C8_Witness ==
  /\ Did("__getitem__")
  /\ last.args.idx = 0 - 1
  /\ Len(Before) = 3
  /\ last.ret = <<Before[3]>>

\* --------------------------------------------------------------------- C9
\* C9: resolving an integer k on a collection of length n returns k itself
\* (a negative k is not normalised) exactly when -n <= k < n, and fails with
\* IndexOutOfRange for every other integer, so for every integer when n = 0.
C9_ResolveInteger ==
  (Did("_get_sys_idx_if_valid") /\ is_int(last.args)) =>
    LET n == Len(Before)
        k == last.args.int
    IN  IF (0 - n) <= k /\ k < n
        THEN Succeeded /\ last.ret = <<k>>
        ELSE Failed(IndexOutOfRange) /\ last.ret = <<>>

\* A negative index was resolved to itself.
C9_Witness ==
  /\ Did("_get_sys_idx_if_valid")
  /\ is_int(last.args)
  /\ last.args.int = 0 - 2
  /\ last.ret = <<0 - 2>>

\* -------------------------------------------------------------------- C10
\* C10: resolving a system applies the type gate before the search: a
\* candidate that satisfies no current marker fails with TypeMismatch
\* whether or not it is in the collection; a conforming candidate in the
\* collection resolves to an index in 0..length-1; a conforming candidate
\* not in it fails with NotRegistered.
C10_ResolveEntity ==
  (Did("_get_sys_idx_if_valid") /\ ~is_int(last.args)) =>
    LET sys == last.args.system
    IN  IF ~Conforms(sys, MarkersBefore)
        THEN Failed(TypeMismatch)
        ELSE IF sys \in Range(Before)
        THEN /\ Succeeded
             /\ Len(last.ret) = 1
             /\ last.ret[1] \in 0..(Len(Before) - 1)
        ELSE Failed(NotRegistered)

\* A member the markers no longer admit was refused by the gate.
C10_Witness ==
  /\ Did("_get_sys_idx_if_valid")
  /\ ~is_int(last.args)
  /\ last.args.system \in Range(Before)
  /\ Failed(TypeMismatch)

\* ------------------------------------------ what a call would do, from here
\* The outcome a call made now would have. A call starts only in a Ready
\* state, and every value the collections take is met in one.
\* get(i) on the collection, called in this state, returns e.
Gets(self, i, e) ==
  ENABLED (__getitem__(self, i) /\ last'.err = "none" /\ last'.ret = <<e>>)

\* get(i) on the collection, called in this state, fails with the kind.
GetFails(self, i, kind) == ENABLED (__getitem__(self, i) /\ last'.err \in kind)

\* Resolving the system e, called in this state, returns j.
Resolves(self, e, j) ==
  ENABLED (/\ _get_sys_idx_if_valid(self, SysArg(e))
           /\ last'.err = "none"
           /\ last'.ret = <<j>>)

\* Resolving the system e, called in this state, fails with the kind.
ResolveFails(self, e, kind) ==
  ENABLED (_get_sys_idx_if_valid(self, SysArg(e)) /\ last'.err \in kind)

\* -------------------------------------------------------------------- C11
\* The round trip at position i of a collection: get(i) returns some e, and
\* resolving e returns a j <= i at which get returns e again.
RoundTrip(self, i) ==
  \E e \in Entities :
    /\ Gets(self, i, e)
    /\ \E j \in 0..i : Resolves(self, e, j) /\ Gets(self, j, e)

\* C11 as stated (P3): in every reachable state the round trip succeeds at
\* every valid position.
C11_RoundTripEverywhere ==
  Ready => \A self \in Collections :
    \A i \in 0..(Len(_systems[self]) - 1) : RoundTrip(self, i)

\* C11, amended: in every reachable state the round trip succeeds at every
\* valid position whose element satisfies the current allowed_sys_types.
C11_RoundTripOfConforming ==
  Ready => \A self \in Collections :
    \A i \in 0..(Len(_systems[self]) - 1) :
      Conforms(At(_systems[self], i), allowed_sys_types[self]) => RoundTrip(self, i)

\* A conforming system held twice, the second time at the last of three
\* positions: the round trip from there leads to an earlier position.
C11_Witness ==
  /\ Ready
  /\ Len(_systems["A"]) = 3
  /\ _systems["A"][3] = _systems["A"][1]
  /\ _systems["A"][2] # _systems["A"][1]
  /\ Conforms(_systems["A"][3], allowed_sys_types["A"])

\* -------------------------------------------------------------------- C12
\* The positions (from 0) at which a sequence holds e.
Positions(s, e) == {k \in 0..(Len(s) - 1) : At(s, k) = e}

\* The smallest member of a non-empty set of positions.
Smallest(P) == CHOOSE k \in P : \A j \in P : k <= j

\* Inserting or appending a conforming system the collection already holds
\* succeeds and makes the collection one longer.
DuplicatesAdmitted ==
  ((Did("insert") \/ Did("append"))
     /\ Conforms(last.args.system, MarkersBefore)
     /\ last.args.system \in Range(Before))
  => (Succeeded /\ Len(After) = Len(Before) + 1)

\* C12 as stated (I2): duplicates are admitted, and resolving a system held
\* at several positions returns the smallest of them.
C12_DuplicatesFirstMatch ==
  /\ DuplicatesAdmitted
  /\ Ready => \A self \in Collections, e \in Entities :
       Cardinality(Positions(_systems[self], e)) >= 2
         => Resolves(self, e, Smallest(Positions(_systems[self], e)))

\* C12, amended: duplicates are admitted, and resolving a system that is
\* held at several positions and satisfies the current allowed_sys_types
\* returns the smallest of them.
C12_DuplicatesFirstMatchOfConforming ==
  /\ DuplicatesAdmitted
  /\ Ready => \A self \in Collections, e \in Entities :
       (/\ Cardinality(Positions(_systems[self], e)) >= 2
        /\ Conforms(e, allowed_sys_types[self]))
         => Resolves(self, e, Smallest(Positions(_systems[self], e)))

\* A system already held at positions 1 and 2 was inserted once more, in
\* front of a different system at position 0.
C12_Witness ==
  /\ Did("insert")
  /\ Succeeded
  /\ last.args.system \in Range(Before)
  /\ Positions(After, last.args.system) = {1, 2}
  /\ Conforms(last.args.system, MarkersAfter)

\* -------------------------------------------------------------------- C13
\* C13: when append, insert, set or delete fails with TypeMismatch or
\* IndexOutOfRange, the entities and the markers are exactly what they were
\* before the call; no partial mutation is observable.
C13_FailureIsAtomic ==
  ((Did("append") \/ Did("insert") \/ Did("__setitem__") \/ Did("__delitem__"))
     /\ (Failed(TypeMismatch) \/ Failed(IndexOutOfRange)))
  => NothingChanged

\* A set of a refused system at an index that addresses a member.
C13_Witness ==
  /\ Did("__setitem__")
  /\ Failed(TypeMismatch)
  /\ Len(Before) = 2
  /\ InRange(Len(Before), last.args.idx)
  /\ At(Before, Position(Len(Before), last.args.idx)) # last.args.system

\* -------------------------------------------------------------------- C15
\* C15: synchronize(time) never fails, returns nothing and leaves the
\* entities and the markers as they were, whatever the time and the state.
C15_SynchronizeIsNoOp ==
  /\ Did("synchronize") => (Succeeded /\ last.ret = <<>> /\ NothingChanged)
  /\ Ready =>
       \A self \in Collections, time \in Times :
         ENABLED (synchronize(self, time) /\ last'.err = "none")

\* synchronize returned on a collection that holds systems, one of them no
\* longer admitted.
C15_Witness ==
  /\ Did("synchronize")
  /\ Succeeded
  /\ last.args.time = 1
  /\ Len(Before) = 2
  /\ \E k \in 0..1 : ~Conforms(At(Before, k), MarkersBefore)

\* -------------------------------------------------------------------- C17
\* C17: a set with a system the markers refuse and an index out of range
\* fails with TypeMismatch, the type check coming first; a set fails with
\* IndexOutOfRange only when the system conforms.
C17_SetChecksTypeFirst ==
  Did("__setitem__") =>
    /\ (/\ ~Conforms(last.args.system, MarkersBefore)
        /\ ~InRange(Len(Before), last.args.idx))
         => Failed(TypeMismatch)
    /\ Failed(IndexOutOfRange) =>
         /\ Conforms(last.args.system, MarkersBefore)
         /\ ~InRange(Len(Before), last.args.idx)

\* A set of a refused system at a negative index before the start.
C17_Witness ==
  /\ Did("__setitem__")
  /\ ~Conforms(last.args.system, MarkersBefore)
  /\ Len(Before) = 1
  /\ last.args.idx = 0 - 2
  /\ Failed(TypeMismatch)

\* -------------------------------------------------------------------- C18
\* C18: an insert of a conforming system never fails on its index: whatever
\* the integer, it succeeds and the length grows by one; an index above the
\* length puts the system last, an index below minus the length puts it first.
C18_InsertClampsIndex ==
  (Did("insert") /\ Conforms(last.args.system, MarkersBefore)) =>
    /\ Succeeded
    /\ Len(After) = Len(Before) + 1
    /\ last.args.idx > Len(Before) => After = Before \o <<last.args.system>>
    /\ last.args.idx < 0 - Len(Before) => After = <<last.args.system>> \o Before

\* An insert at an index two below minus the length, into a collection of
\* two other systems.
C18_Witness ==
  /\ Did("insert")
  /\ Succeeded
  /\ Len(Before) = 2
  /\ last.args.idx = 0 - 4
  /\ last.args.system \notin Range(Before)
  /\ At(After, 0) = last.args.system

\* -------------------------------------------------------------------- C19
\* C19: _get_sys_idx_if_valid is read-only: whatever its outcome, the
\* entities and the markers are as they were; resolving a conforming system
\* that is not registered does not register it.
C19_ResolutionIsReadOnly ==
  Did("_get_sys_idx_if_valid") =>
    /\ NothingChanged
    /\ (/\ ~is_int(last.args)
        /\ Conforms(last.args.system, MarkersBefore)
        /\ last.args.system \notin Range(Before))
         => (Failed(NotRegistered) /\ last.args.system \notin Range(After))

\* A conforming system that a non-empty collection does not hold was resolved.
C19_Witness ==
  /\ Did("_get_sys_idx_if_valid")
  /\ ~is_int(last.args)
  /\ Conforms(last.args.system, MarkersBefore)
  /\ Len(Before) = 2
  /\ last.args.system \notin Range(Before)
  /\ Failed(NotRegistered)

\* -------------------------------------------------------------------- C14
\* Integer indices are the contiguous range 0..length-1: of the non-negative
\* integers, get succeeds on exactly those below the length.
IndicesContiguous ==
  Ready => \A self \in Collections, i \in 0..MaxSystems :
    IF i < Len(_systems[self])
    THEN Gets(self, i, At(_systems[self], i))
    ELSE GetFails(self, i, IndexOutOfRange)

\* A position resolution returns is a current one: it holds the system now.
NeverStale ==
  Ready => \A self \in Collections, e \in Entities, j \in 0..MaxSystems :
    Resolves(self, e, j) => (j < Len(_systems[self]) /\ At(_systems[self], j) = e)

\* After delete(k), the systems held once, at a position i > k, that satisfy
\* the predicate resolve to i - 1.
ShiftsDown(answerable(_)) ==
  (Did("__delitem__") /\ Succeeded /\ last.args.idx >= 0) =>
    \A e \in Entities, i \in (last.args.idx + 1)..(Len(Before) - 1) :
      (Positions(Before, e) = {i} /\ answerable(e)) => Resolves(last.self, e, i - 1)

\* After insert(k, e'), the systems of the predicate held once, at a
\* position i >= k, that satisfy the predicate resolve to i + 1.
ShiftsUp(answerable(_)) ==
  (Did("insert") /\ Succeeded /\ last.args.idx >= 0) =>
    \A e \in Entities, i \in last.args.idx..(Len(Before) - 1) :
      (Positions(Before, e) = {i} /\ answerable(e)) => Resolves(last.self, e, i + 1)

\* From r0, r1, r2 in that order, delete(1) leaves two systems, r2 at 1, and
\* r2, when it satisfies the predicate, resolves to 1.
DeleteMiddleOfThree(answerable(_)) ==
  (Did("__delitem__") /\ Before = <<"r0", "r1", "r2">> /\ last.args.idx = 1) =>
    /\ Len(After) = 2
    /\ Gets(last.self, 1, "r2")
    /\ answerable("r2") => Resolves(last.self, "r2", 1)

\* C14 as stated (I3): indices are contiguous; after delete(k) a system held
\* once at i > k resolves to i - 1, after insert(k, e') a system held once at
\* i >= k resolves to i + 1; no stale position is returned; the r0, r1, r2
\* scenario.
C14_ResolutionFollowsPosition ==
  /\ IndicesContiguous
  /\ NeverStale
  /\ ShiftsDown(LAMBDA e : TRUE)
  /\ ShiftsUp(LAMBDA e : TRUE)
  /\ DeleteMiddleOfThree(LAMBDA e : TRUE)

\* C14, amended: the same, for the systems that satisfy the current
\* allowed_sys_types and, after an insert, are not the inserted system.
C14_ResolutionFollowsPositionOfConforming ==
  /\ IndicesContiguous
  /\ NeverStale
  /\ ShiftsDown(LAMBDA e : Conforms(e, MarkersAfter))
  /\ ShiftsUp(LAMBDA e : Conforms(e, MarkersAfter) /\ e # last.args.system)
  /\ DeleteMiddleOfThree(LAMBDA e : Conforms(e, MarkersAfter))

\* The scenario: r0, r1, r2 held in that order, all admitted by the current
\* markers, and delete(1) completed.
C14_Witness ==
  /\ Did("__delitem__")
  /\ Succeeded
  /\ Before = <<"r0", "r1", "r2">>
  /\ last.args.idx = 1
  /\ Conforms("r2", MarkersAfter)
  /\ After = <<"r0", "r2">>

\* -------------------------------------------------------------------- C16
\* The gate of a collection refuses the system: an append of it, called in
\* this state, fails with TypeMismatch.
Refuses(self, sys) == ENABLED (append(self, sys) /\ last'.err \in TypeMismatch)

\* C16: of two collections, a call on one (extend_allowed_types and
\* override_allowed_types among them) leaves the other's markers, the
\* other's admission decisions and the other's entities as they were;
\* nothing is shared between instances.
C16_PolicyIsPerInstance ==
  ~Ready =>
    \A other \in Collections \ {last.self} :
      /\ allowed_sys_types[other] = last.pre_allowed[other]
      /\ _systems[other] = last.pre_systems[other]
      /\ \A sys \in Entities :
           Refuses(other, sys) <=> ~Conforms(sys, last.pre_allowed[other])

\* A's markers were overridden to be empty while B admits rigid bodies only
\* and holds one.
C16_Witness ==
  /\ Did("override_allowed_types")
  /\ last.self = "A"
  /\ last.pre_allowed["A"] = <<"RodBase">>
  /\ allowed_sys_types["A"] = <<>>
  /\ allowed_sys_types["B"] = <<"RigidBodyBase">>
  /\ _systems["B"] = <<"b0">>

====
